---- MODULE Spec2Model ----
(***************************************************************************)
(* Energy based voice activity detection (src/vad.py): MelVad and SigVad.  *)
(*                                                                         *)
(* Conventions of the model                                                *)
(*  - Python's None is NoneV, a present value v is Some(v).                *)
(*  - A frame array of length N is a sequence; frame index i (0-based, as  *)
(*    in the code) is element i+1 of the sequence.                         *)
(*  - Seconds are exact rationals <<num, den>> in lowest terms, den > 0.   *)
(*  - Powers are integers counted in a unit in which the floor `amin` of   *)
(*    librosa.power_to_db is 1; all powers drawn are powers of ten (times  *)
(*    a common factor), so that decibel differences are exact integers.    *)
(*  - A mel matrix is [bands, rows]: `bands` is np.shape(mels)[-1] and     *)
(*    rows[i] is the value shared by all bands of frame i-1, in fifths     *)
(*    (rows[i] = 3 is the feature value 0.6).                              *)
(*  - The waveform is given by its length and by the per-frame mean square *)
(*    energy that librosa.feature.rms(...)**2 yields for it.               *)
(***************************************************************************)
EXTENDS Integers, Sequences, FiniteSets, TLC

VARIABLES
  cls,      \* which analyzer was constructed: "MelVad" or "SigVad"
  cfg,      \* the analyzer's configuration, set by __init__
  pc,       \* "idle" | "done" | "error"
  call,     \* the operation called and its arguments
  loc,      \* the local variables of the call
  ret       \* the value returned by the call

vars == <<cls, cfg, pc, call, loc, ret>>

---------------------------------------------------------------------------
(* Bounds of the model *)

\* the most frames of a feature matrix, and of a waveform
MaxFrames == 6
MaxSigFrames == 5
\* the most frames handed to get_vad_label, which is meant for one
MaxLabelFrames == 2

---------------------------------------------------------------------------
(* Values *)

NoneV == [set |-> FALSE, val |-> 0]
Some(v) == [set |-> TRUE, val |-> v]

\* Python truthiness of an optional number: None and 0 are falsy.
Truthy(o) == o.set /\ o.val # 0

Max(a, b) == IF a >= b THEN a ELSE b
Min(a, b) == IF a <= b THEN a ELSE b

RECURSIVE GCD(_, _)
GCD(a, b) == IF b = 0 THEN a ELSE GCD(b, a % b)

Abs(a) == IF a < 0 THEN -a ELSE a

\* the rational n/d (d > 0) in lowest terms
Rat(n, d) == LET g == GCD(Abs(n), d) IN <<n \div g, d \div g>>
RatSub(a, b) == Rat(a[1] * b[2] - b[1] * a[2], a[2] * b[2])
RatMul(a, b) == Rat(a[1] * b[1], a[2] * b[2])
RatGt(a, b) == a[1] * b[2] > b[1] * a[2]
RatLeq(a, b) == a[1] * b[2] <= b[1] * a[2]
RatLt(a, b) == a[1] * b[2] < b[1] * a[2]
Zero == Rat(0, 1)

RECURSIVE Pow10(_)
Pow10(k) == IF k <= 0 THEN 1 ELSE 10 * Pow10(k - 1)

RECURSIVE MaxOf(_)
MaxOf(s) == IF Len(s) = 1 THEN s[1] ELSE Max(s[1], MaxOf(Tail(s)))

---------------------------------------------------------------------------
(* Decibels: librosa.power_to_db(S, ref, top_db=None)                      *)

Amin == 1

\* log10(a/b) for a, b > 0 whose quotient is a power of ten
RECURSIVE Log10Ratio(_, _)
Log10Ratio(a, b) ==
  IF a = b THEN 0
  ELSE IF a > b THEN (IF a < 10 THEN 0 ELSE 1 + Log10Ratio(a \div 10, b))
  ELSE (IF b < 10 THEN 0 ELSE Log10Ratio(a, b \div 10) - 1)

\* 10*log10(max(amin, S)) - 10*log10(max(amin, ref)); no floor is applied
PowerToDb(S, ref) ==
  [i \in 1..Len(S) |-> 10 * Log10Ratio(Max(Amin, S[i]), Max(Amin, ref))]

---------------------------------------------------------------------------
(* MelVad *)

BandCount == 80
RefLevelDb == 20
MinLevelDb == -100
Clip(v, lo, hi) == Max(lo, Min(hi, v))

\* _get_mel_power: per frame, the sum over the bands of
\* 10 ** ((clip(m, 0, 1) * 100 - 100 + 20) * 0.05), in units of 10 ** -4
GetMelPower(mels) ==
  [i \in 1..Len(mels.rows) |->
     \* feature values are in fifths: np.clip(m, 0, 1) is Clip(m, 0, 5) / 5
     LET clipped == (Clip(mels.rows[i], 0, 5) * (-MinLevelDb)) \div 5 + MinLevelDb
         expo == (clipped + RefLevelDb) \div 20
     IN mels.bands * Pow10(expo + 4)]

\* assert (self._global_ref_db or not using_global_ref)
RefAssert(global_ref_db, using_global_ref) ==
  Truthy(global_ref_db) \/ ~using_global_ref

\* mutant: the band count is not checked
ShapeAssertOff(mels) == TRUE

\* assert np.shape(mels)[-1] == 80
ShapeAssert(mels) == mels.bands = BandCount

MelRef(global_ref_db, mel_amp, using_global_ref) ==
  IF using_global_ref THEN global_ref_db.val ELSE MaxOf(mel_amp)

\* mutant: the comparison of the speech mask reversed
NosilIndexFlipped(db, top_db) == {i \in 0..(Len(db) - 1) : db[i + 1] < -top_db}

\* np.where(db > -top_db)[0], as a set of 0-based frame indices
NosilIndex(db, top_db) == {i \in 0..(Len(db) - 1) : db[i + 1] > -top_db}

\* mutant: the sign of the threshold lost
SilIndexSignSlip(db, top_db) == {i \in 0..(Len(db) - 1) : db[i + 1] < top_db}

\* np.where(db < -top_db)[0]
SilIndex(db, top_db) == {i \in 0..(Len(db) - 1) : db[i + 1] < -top_db}

---------------------------------------------------------------------------
(* The run scan shared by get_nosil_endpoints and _get_sil_endpoints *)

\* librosa.frames_to_samples(frames, hop_length)
FramesToSamples(frames, hop_length) == frames * hop_length

\* mutant: the scan without the sentinel at index -1
IsRunStartNoSentinel(x, sil_index) ==
  x >= 0 /\ x \notin sil_index /\ (x + 1) \in sil_index

\* x not in sil_index and (x + 1) in sil_index
IsRunStart(x, sil_index) == x \notin sil_index /\ (x + 1) \in sil_index

\* x in sil_index and x + 1 not in sil_index
IsRunEnd(x, sil_index) == x \in sil_index /\ (x + 1) \notin sil_index

\* one iteration of `for x in range(-1, len(db))`; st = [start, end, out]
ScanBody(st, x, sil_index, hop) ==
  LET s1 == IF IsRunStart(x, sil_index)
            THEN Some(FramesToSamples(x + 1, hop)) ELSE st.start
  IN IF IsRunEnd(x, sil_index)
     THEN [start |-> s1, end |-> Some(FramesToSamples(x, hop)),
           out |-> Append(st.out, <<s1, FramesToSamples(x, hop)>>)]
     ELSE [st EXCEPT !.start = s1]

RECURSIVE ScanLoop(_, _, _, _, _)
ScanLoop(st, x, n, sil_index, hop) ==
  IF x >= n THEN st
  ELSE ScanLoop(ScanBody(st, x, sil_index, hop), x + 1, n, sil_index, hop)

\* start, end = None, None; the list = []; the loop over range(-1, n)
Scan(n, sil_index, hop) ==
  ScanLoop([start |-> NoneV, end |-> NoneV, out |-> <<>>], -1, n, sil_index, hop).out

\* mutants: the filter one frame more lenient (>= 1), and no filter at all
KeepPairFromOne(p) == p[2] - p[1].val >= 1
KeepPairAny(p) == p[2] - p[1].val >= 0

\* [(_s, _e) for _s, _e in pairs if _e - _s > 1]
KeepPair(p) == p[2] - p[1].val > 1
FilterShort(pairs) ==
  LET kept == SelectSeq(pairs, KeepPair)
  IN [i \in 1..Len(kept) |-> <<kept[i][1].val, kept[i][2]>>]

\* MelVad.get_vad_label, as the record of its locals and its outcome
GetVadLabel(c, mels, using_global_ref) ==
  IF ~RefAssert(c.global_ref_db, using_global_ref) \/ ~ShapeAssert(mels)
  THEN [ok |-> FALSE, db |-> <<>>, label |-> FALSE]
  ELSE LET mel_amp == GetMelPower(mels)
           ref == MelRef(c.global_ref_db, mel_amp, using_global_ref)
           mel_db == PowerToDb(mel_amp, ref)
       IN [ok |-> TRUE, db |-> mel_db, label |-> mel_db[1] > -c.top_db]

\* MelVad.get_nosil_endpoints
GetNosilEndpoints(c, mels, using_global_ref) ==
  IF ~RefAssert(c.global_ref_db, using_global_ref) \/ ~ShapeAssert(mels)
  THEN [ok |-> FALSE, db |-> <<>>, sil_index |-> {}, raw |-> <<>>, out |-> <<>>]
  ELSE LET mel_amp == GetMelPower(mels)
           ref == MelRef(c.global_ref_db, mel_amp, using_global_ref)
           mel_db == PowerToDb(mel_amp, ref)
           sil_index == NosilIndex(mel_db, c.top_db)
           nosil_duration == Scan(Len(mel_db), sil_index, 1)
       IN [ok |-> TRUE, db |-> mel_db, sil_index |-> sil_index,
           raw |-> nosil_duration, out |-> FilterShort(nosil_duration)]

---------------------------------------------------------------------------
(* SigVad *)

\* ref=self._ref: np.max (the peak power of the signal) or a number
SigRef(ref, mse) == IF ref.mode = "max" THEN MaxOf(mse) ELSE ref.val

\* the branch on sil_type; anything else raises Exception("Error for sil type")
KnownSilType(sil_type) == sil_type \in {"sil", "nosil"}

\* SigVad._get_sil_endpoints
GetSilEndpoints(c, mse, sil_type) ==
  LET signal_db == PowerToDb(mse, SigRef(c.ref, mse))
  IN IF ~KnownSilType(sil_type)
     THEN [ok |-> FALSE, db |-> signal_db, sil_index |-> {}, raw |-> <<>>,
           out |-> <<>>]
     ELSE LET sil_index == IF sil_type = "sil" THEN SilIndex(signal_db, c.top_db)
                           ELSE NosilIndex(signal_db, c.top_db)
              sil_endpoints == Scan(Len(signal_db), sil_index, c.hop_length)
          IN [ok |-> TRUE, db |-> signal_db, sil_index |-> sil_index,
              raw |-> sil_endpoints, out |-> FilterShort(sil_endpoints)]

\* mutant: no tolerance at the boundaries of the clip
EpsilonZero == Rat(0, 1)

Epsilon == Rat(1, 1000)

\* mutant: the speech between two silences starts where the first one starts
SilToNosilFromStart(sil_data, dur) ==
  LET n == Len(sil_data)
      leading == IF RatGt(sil_data[1][1], Rat(1, 1000))
                 THEN << <<Zero, sil_data[1][1]>> >> ELSE <<>>
      between == [idx \in 1..(n - 1) |-> <<sil_data[idx][1], sil_data[idx + 1][1]>>]
      trailing == IF RatGt(RatSub(dur, sil_data[n][2]), Rat(1, 1000))
                  THEN << <<sil_data[n][2], dur>> >> ELSE <<>>
  IN leading \o between \o trailing

\* SigVad._sil_to_nosil
SilToNosil(sil_data, dur) ==
  LET n == Len(sil_data)
      leading == IF RatGt(sil_data[1][1], Epsilon)
                 THEN << <<Zero, sil_data[1][1]>> >> ELSE <<>>
      between == [idx \in 1..(n - 1) |-> <<sil_data[idx][2], sil_data[idx + 1][1]>>]
      trailing == IF RatGt(RatSub(dur, sil_data[n][2]), Epsilon)
                  THEN << <<sil_data[n][2], dur>> >> ELSE <<>>
  IN leading \o between \o trailing

\* mutant: no minimum-silence filter
LongSilenceAlways(p, sr, min_sil_dur) == TRUE

\* e - s > sr * min_sil_dur, on a pair of sample indices
LongSilence(p, sr, min_sil_dur) ==
  RatGt(Rat(p[2] - p[1], 1), RatMul(Rat(sr, 1), min_sil_dur))

\* e - s > min_nosil_dur, on a pair of seconds
LongSpeech(p, min_nosil_dur) == RatGt(RatSub(p[2], p[1]), min_nosil_dur)

\* SigVad.get_speech_endpoint(signal=..., sr=...)
GetSpeechEndpoint(c, sig, sr, min_sil_dur, min_nosil_dur) ==
  LET dur == Rat(sig.len, sr)
      sil == GetSilEndpoints(c, sig.mse, "sil")
      kept == SelectSeq(sil.out, LAMBDA p : LongSilence(p, sr, min_sil_dur))
      sil_data == [i \in 1..Len(kept) |-> <<Rat(kept[i][1], sr), Rat(kept[i][2], sr)>>]
      nosil_raw == IF Len(sil_data) = 0 THEN <<>> ELSE SilToNosil(sil_data, dur)
      nosil_data == SelectSeq(nosil_raw, LAMBDA p : LongSpeech(p, min_nosil_dur))
  IN [sil |-> sil, dur |-> dur, sil_data |-> sil_data, nosil_raw |-> nosil_raw,
      out |-> IF Len(sil_data) = 0 THEN << <<Zero, dur>> >> ELSE nosil_data]

---------------------------------------------------------------------------
(* Inputs *)

TopDbs == {0, 15, 25}

\* global_ref_db: absent, or the power of a frame whose bands are all 0.6
GlobalRefs == {NoneV, Some(BandCount * Pow10(3))}

Hops == {1, 2}

SigRefs == {[mode |-> "max", val |-> 0], [mode |-> "fixed", val |-> Pow10(3)]}

\* feature values in fifths; -1 and 6 lie outside [0, 1] and are clipped
MelVals == {-1, 3, 6}

\* the feature matrix of the scenario: 10 frames, frames 3..6 loud
ScenarioMels ==
  [bands |-> BandCount, rows |-> [i \in 1..10 |-> IF i - 1 \in 3..6 THEN 5 ELSE 0]]

\* matrices of 80 bands, and matrices of up to MaxLabelFrames frames of 79 bands
MelInputs ==
  UNION {{[bands |-> BandCount, rows |-> r] : r \in [1..n -> MelVals]}
           : n \in 1..MaxFrames}
    \cup UNION {{[bands |-> BandCount - 1, rows |-> r] : r \in [1..n -> MelVals]}
                  : n \in 1..MaxLabelFrames}
    \cup {ScenarioMels}

LabelInputs == {m \in MelInputs : Len(m.rows) <= MaxLabelFrames}

\* per-frame mean square energies, in units of amin
SigPowers == {0, 10, Pow10(3)}

\* librosa.feature.rms (center=True) yields 1 + len // hop_length frames
FrameCount(len, hop_length) == 1 + len \div hop_length

\* the scenario clips: 3.0 s at 10 samples per second, hop 1;
\* one with quiet frames 5..15 and 20..22, one that is quiet throughout
ScenarioSig ==
  [len |-> 30,
   mse |-> [i \in 1..31 |-> IF i - 1 \in (5..15) \cup (20..22) THEN 0 ELSE Pow10(3)]]
QuietSig == [len |-> 30, mse |-> [i \in 1..31 |-> 0]]

\* the waveforms of 1 to MaxSigFrames * hop_length - 1 samples
SigInputs(hop_length) ==
  UNION {{[len |-> n, mse |-> m] : m \in [1..FrameCount(n, hop_length) -> SigPowers]}
           : n \in 1..(MaxSigFrames * hop_length - 1)}

Rates == {2, 4000}
MinSilDurs == {Zero, Rat(3, 4)}
MinNosilDurs == {Zero, Rat(2, 5)}
SilTypes == {"sil", "nosil", "speech"}

---------------------------------------------------------------------------
(* The state machine: one analyzer, called any number of times *)

NoCall ==
  [op |-> "none", mels |-> [bands |-> 0, rows |-> <<>>], using_global_ref |-> FALSE,
   sig |-> [len |-> 0, mse |-> <<>>], sil_type |-> "", sr |-> 0,
   min_sil_dur |-> Zero, min_nosil_dur |-> Zero]

NoLoc ==
  [db |-> <<>>, sil_index |-> {}, raw |-> <<>>, sil_endpoints |-> <<>>,
   dur |-> Zero, sil_data |-> <<>>, nosil_raw |-> <<>>]

NoRet == [kind |-> "none", label |-> FALSE, intervals |-> <<>>]

\* MelVad.__init__(global_ref_db, top_db)
MelVadInit(global_ref_db, top_db) ==
  /\ cls = "MelVad"
  /\ cfg = [global_ref_db |-> global_ref_db, top_db |-> top_db, hop_length |-> 0,
            ref |-> [mode |-> "none", val |-> 0]]

\* SigVad.__init__(top_db, frame_length, hop_length, ref)
SigVadInit(top_db, hop_length, ref) ==
  /\ cls = "SigVad"
  /\ cfg = [global_ref_db |-> NoneV, top_db |-> top_db, hop_length |-> hop_length,
            ref |-> ref]

Init ==
  /\ \/ \E g \in GlobalRefs, t \in TopDbs : MelVadInit(g, t)
     \/ \E t \in TopDbs, h \in Hops, r \in SigRefs : SigVadInit(t, h, r)
  /\ pc = "idle"
  /\ call = NoCall
  /\ loc = NoLoc
  /\ ret = NoRet

get_vad_label ==
  /\ pc = "idle" /\ cls = "MelVad"
  /\ \E mels \in LabelInputs, using_global_ref \in BOOLEAN :
    \E r \in {GetVadLabel(cfg, mels, using_global_ref)} :
    /\ call' = [NoCall EXCEPT !.op = "get_vad_label", !.mels = mels,
                              !.using_global_ref = using_global_ref]
    /\ loc' = [NoLoc EXCEPT !.db = r.db]
    /\ pc' = IF r.ok THEN "done" ELSE "error"
    /\ ret' = IF r.ok THEN [NoRet EXCEPT !.kind = "label", !.label = r.label] ELSE NoRet
    /\ UNCHANGED <<cls, cfg>>

get_nosil_endpoints ==
  /\ pc = "idle" /\ cls = "MelVad"
  /\ \E mels \in MelInputs, using_global_ref \in BOOLEAN :
    \E r \in {GetNosilEndpoints(cfg, mels, using_global_ref)} :
    /\ call' = [NoCall EXCEPT !.op = "get_nosil_endpoints", !.mels = mels,
                              !.using_global_ref = using_global_ref]
    /\ loc' = [NoLoc EXCEPT !.db = r.db, !.sil_index = r.sil_index, !.raw = r.raw]
    /\ pc' = IF r.ok THEN "done" ELSE "error"
    /\ ret' = IF r.ok THEN [NoRet EXCEPT !.kind = "intervals", !.intervals = r.out]
              ELSE NoRet
    /\ UNCHANGED <<cls, cfg>>

get_sil_endpoints ==
  /\ pc = "idle" /\ cls = "SigVad"
  /\ \E sig \in SigInputs(cfg.hop_length), sil_type \in SilTypes :
    \E r \in {GetSilEndpoints(cfg, sig.mse, sil_type)} :
    /\ call' = [NoCall EXCEPT !.op = "_get_sil_endpoints", !.sig = sig,
                              !.sil_type = sil_type]
    /\ loc' = [NoLoc EXCEPT !.db = r.db, !.sil_index = r.sil_index, !.raw = r.raw,
                            !.sil_endpoints = r.out]
    /\ pc' = IF r.ok THEN "done" ELSE "error"
    /\ ret' = IF r.ok THEN [NoRet EXCEPT !.kind = "intervals", !.intervals = r.out]
              ELSE NoRet
    /\ UNCHANGED <<cls, cfg>>

SpeechInputs(hop_length) ==
  {[sig |-> s, sr |-> sr, min_sil_dur |-> a, min_nosil_dur |-> b] :
     s \in SigInputs(hop_length), sr \in Rates, a \in MinSilDurs, b \in MinNosilDurs}
    \cup (IF hop_length = 1
          THEN {[sig |-> s, sr |-> 10, min_sil_dur |-> Rat(3, 4),
                 min_nosil_dur |-> Rat(2, 5)] : s \in {ScenarioSig, QuietSig}}
          ELSE {})

get_speech_endpoint ==
  /\ pc = "idle" /\ cls = "SigVad"
  /\ \E in \in SpeechInputs(cfg.hop_length) :
    \E r \in {GetSpeechEndpoint(cfg, in.sig, in.sr, in.min_sil_dur, in.min_nosil_dur)} :
    /\ call' = [NoCall EXCEPT !.op = "get_speech_endpoint", !.sig = in.sig,
                              !.sil_type = "sil", !.sr = in.sr,
                              !.min_sil_dur = in.min_sil_dur,
                              !.min_nosil_dur = in.min_nosil_dur]
    /\ loc' = [db |-> r.sil.db, sil_index |-> r.sil.sil_index, raw |-> r.sil.raw,
               sil_endpoints |-> r.sil.out, dur |-> r.dur, sil_data |-> r.sil_data,
               nosil_raw |-> r.nosil_raw]
    /\ pc' = "done"
    /\ ret' = [NoRet EXCEPT !.kind = "intervals", !.intervals = r.out]
    /\ UNCHANGED <<cls, cfg>>

\* the caller takes the result (or the exception); the analyzer is called again
Return ==
  /\ pc \in {"done", "error"}
  /\ pc' = "idle"
  /\ call' = NoCall
  /\ loc' = NoLoc
  /\ ret' = NoRet
  /\ UNCHANGED <<cls, cfg>>

Next ==
  \/ get_vad_label
  \/ get_nosil_endpoints
  \/ get_sil_endpoints
  \/ get_speech_endpoint
  \/ Return

Spec == Init /\ [][Next]_vars

---------------------------------------------------------------------------
(* Vocabulary of the properties *)

Done(op) == pc = "done" /\ call.op = op

\* the number of frames of the call's decibel profile
NFrames == Len(loc.db)

\* the unit of the scanned pairs: frames for MelVad, samples for SigVad
Unit == IF cls = "MelVad" THEN 1 ELSE cfg.hop_length

\* the maximal runs of consecutive frames of a mask, as inclusive pairs
MaximalRuns(mask, n) ==
  {p \in (0..(n - 1)) \X (0..(n - 1)) :
     /\ p[1] <= p[2]
     /\ \A i \in p[1]..p[2] : i \in mask
     /\ (p[1] - 1) \notin mask
     /\ (p[2] + 1) \notin mask}

Millisecond == Rat(1, 1000)

Scanned == pc = "done" /\ call.op \in {"get_nosil_endpoints", "_get_sil_endpoints",
                                       "get_speech_endpoint"}

SeqSet(q) == {q[i] : i \in 1..Len(q)}

---------------------------------------------------------------------------
(* C1: before any length filtering the run scan yields exactly one pair    *)
(* per maximal run of true frames of the mask, in ascending order, with    *)
(* start the first and end the last frame of the run (in the unit of the   *)
(* called operation), and start is set in every pair appended; when just   *)
(* frames 3..6 of 10 are speech, get_nosil_endpoints returns [(3, 6)].     *)
C1_ScanYieldsMaximalRuns ==
  /\ Scanned =>
       /\ \A i \in 1..Len(loc.raw) : loc.raw[i][1].set
       /\ {<<loc.raw[i][1].val, loc.raw[i][2]>> : i \in 1..Len(loc.raw)}
            = {<<r[1] * Unit, r[2] * Unit>> : r \in MaximalRuns(loc.sil_index, NFrames)}
       /\ Len(loc.raw) = Cardinality(MaximalRuns(loc.sil_index, NFrames))
       /\ \A i \in 1..(Len(loc.raw) - 1) : loc.raw[i][2] < loc.raw[i + 1][1].val
  /\ (Done("get_nosil_endpoints") /\ NFrames = 10 /\ loc.sil_index = 3..6)
       => ret.intervals = << <<3, 6>> >>

\* a scan of a mask with several runs, one touching frame 0, one the last frame
C1_Witness ==
  /\ Scanned
  /\ Len(loc.raw) >= 2
  /\ 0 \in loc.sil_index
  /\ (NFrames - 1) \in loc.sil_index

\* the scenario of C1 is reached
C1_ScenarioReached ==
  Done("get_nosil_endpoints") /\ NFrames = 10 /\ loc.sil_index = 3..6

---------------------------------------------------------------------------
(* C2 (as stated): get_nosil_endpoints returns exactly the maximal speech  *)
(* runs that cover two or more frames.                                     *)
C2_DropsOnlySingleFrames ==
  (Done("get_nosil_endpoints") /\ cfg.top_db > 0) =>
    SeqSet(ret.intervals) = {r \in MaximalRuns(loc.sil_index, NFrames) : r[2] - r[1] + 1 >= 2}

(* C2 (amended): get_nosil_endpoints drops exactly the maximal speech runs *)
(* with end - start <= 1, that is the runs of one or of two frames: every  *)
(* run of three or more frames is returned as its (first, last) pair, in   *)
(* order, and nothing else is.                                             *)
C2_DropsRunsUpToTwoFrames ==
  Done("get_nosil_endpoints") =>
    /\ SeqSet(ret.intervals)
         = {r \in MaximalRuns(loc.sil_index, NFrames) : r[2] - r[1] + 1 >= 3}
    /\ \A i \in 1..(Len(ret.intervals) - 1) : ret.intervals[i][2] < ret.intervals[i + 1][1]

\* a mask with a two-frame run, which is dropped, and a longer run, which is kept
C2_Witness ==
  /\ Done("get_nosil_endpoints")
  /\ \E r \in MaximalRuns(loc.sil_index, NFrames) : r[2] - r[1] = 1
  /\ Len(ret.intervals) >= 1

---------------------------------------------------------------------------
(* C3: no interval returned by get_speech_endpoint has a duration less     *)
(* than or equal to min_nosil_dur, also when no silence interval survives. *)
C3_NoShortSpeech ==
  (Done("get_speech_endpoint") /\ cfg.top_db > 0) =>
    \A i \in 1..Len(ret.intervals) :
      RatGt(RatSub(ret.intervals[i][2], ret.intervals[i][1]), call.min_nosil_dur)

---------------------------------------------------------------------------
(* C4 (as stated): when every frame is classified silence,                 *)
(* get_speech_endpoint returns exactly [(0.0, duration)].                  *)
AllSilence == Done("get_speech_endpoint") /\ loc.sil_index = 0..(NFrames - 1)

C4_AllSilenceGivesWholeClip ==
  (AllSilence /\ cfg.top_db > 0) => ret.intervals = << <<Zero, loc.dur>> >>

(* C4 (amended): when every frame is classified silence the scan yields    *)
(* the one run (0, (N-1)*hop); get_speech_endpoint returns                 *)
(* [(0.0, duration)] only if that run fails a filter ((N-1)*hop <= 1, or   *)
(* (N-1)*hop <= sr * min_sil_dur); if it survives, the result is the       *)
(* remainder [((N-1)*hop/sr, duration)] when that is longer than 0.001 s   *)
(* and than min_nosil_dur, and the empty list otherwise.                   *)
C4_AllSilenceResult ==
  AllSilence =>
    LET last == (NFrames - 1) * cfg.hop_length
        survives == /\ last > 1
                    /\ last * call.min_sil_dur[2] > call.sr * call.min_sil_dur[1]
        rest == RatSub(loc.dur, Rat(last, call.sr))
    IN /\ loc.raw = << <<Some(0), last>> >>
       /\ ret.intervals =
            IF ~survives THEN << <<Zero, loc.dur>> >>
            ELSE IF RatGt(rest, Millisecond) /\ RatGt(rest, call.min_nosil_dur)
                 THEN << <<Rat(last, call.sr), loc.dur>> >>
                 ELSE <<>>

\* the 3.0 s clip that is silence throughout: nothing is returned
C4_Witness ==
  /\ AllSilence
  /\ loc.dur = Rat(3, 1) /\ call.min_sil_dur = Rat(3, 4)
  /\ Len(loc.sil_data) = 1
  /\ ret.intervals = <<>>

---------------------------------------------------------------------------
(* C5: every interval list returned by get_nosil_endpoints (frames),       *)
(* _get_sil_endpoints (samples) and get_speech_endpoint (seconds) is       *)
(* ordered and non-overlapping: start < end in every interval, and each    *)
(* interval ends no later than the next one starts.                        *)
C5_OrderedNonOverlapping ==
  /\ (pc = "done" /\ call.op \in {"get_nosil_endpoints", "_get_sil_endpoints"}) =>
       /\ \A i \in 1..Len(ret.intervals) : ret.intervals[i][1] < ret.intervals[i][2]
       /\ \A i \in 1..(Len(ret.intervals) - 1) :
            ret.intervals[i][2] <= ret.intervals[i + 1][1]
  /\ Done("get_speech_endpoint") =>
       /\ \A i \in 1..Len(ret.intervals) :
            RatLt(ret.intervals[i][1], ret.intervals[i][2])
       /\ \A i \in 1..(Len(ret.intervals) - 1) :
            RatLeq(ret.intervals[i][2], ret.intervals[i + 1][1])

\* speech endpoints with several intervals, from a mask with a one-frame run
C5_Witness ==
  /\ Done("get_speech_endpoint")
  /\ Len(ret.intervals) >= 2
  /\ Len(loc.raw) > Len(loc.sil_endpoints)

---------------------------------------------------------------------------
(* C6: when a silence interval survives, the surviving silence intervals   *)
(* and the speech intervals of _sil_to_nosil (before the minimum-speech    *)
(* filter) have pairwise disjoint interiors and cover [0, duration], but   *)
(* for a gap before the first silence and one after the last, each of at   *)
(* most 0.001 s.                                                           *)
Pieces == SeqSet(loc.sil_data) \cup SeqSet(loc.nosil_raw)

C6_CoverageComplement ==
  (Done("get_speech_endpoint") /\ Len(loc.sil_data) > 0) =>
    LET first == loc.sil_data[1]
        last == loc.sil_data[Len(loc.sil_data)]
    IN /\ Cardinality(Pieces) = Len(loc.sil_data) + Len(loc.nosil_raw)
       /\ \A a \in Pieces :
            /\ RatLeq(Zero, a[1]) /\ RatLt(a[1], a[2]) /\ RatLeq(a[2], loc.dur)
            \* a piece starts at 0, or where another ends, or after the leading gap
            /\ \/ a[1] = Zero
               \/ \E b \in Pieces : b[2] = a[1]
               \/ a = first /\ RatLeq(a[1], Millisecond)
            \* a piece ends at the duration, or where another starts, or at the
            \* trailing gap
            /\ \/ a[2] = loc.dur
               \/ \E b \in Pieces : b[1] = a[2]
               \/ a = last /\ RatLeq(RatSub(loc.dur, a[2]), Millisecond)
       /\ \A a, b \in Pieces : a # b => RatLeq(a[2], b[1]) \/ RatLeq(b[2], a[1])

\* a silence that starts within 0.001 s of the start, and speech after it
C6_Witness ==
  /\ Done("get_speech_endpoint")
  /\ Len(loc.sil_data) > 0
  /\ RatLt(Zero, loc.sil_data[1][1]) /\ RatLeq(loc.sil_data[1][1], Millisecond)
  /\ Len(loc.nosil_raw) >= 1

\* two surviving silence intervals with speech between them
C6_TwoSilences ==
  Done("get_speech_endpoint") /\ Len(loc.sil_data) >= 2

---------------------------------------------------------------------------
(* C7: a call that violates a precondition (global reference asked of a    *)
(* MelVad built without one, a band count other than 80, a sil_type other  *)
(* than "sil" and "nosil") ends in an error and returns neither a label    *)
(* nor an interval list; a call that ends in an error violated one; and    *)
(* no call changes the analyzer's configuration.                           *)
Violates ==
  \/ /\ call.op \in {"get_vad_label", "get_nosil_endpoints"}
     /\ \/ call.using_global_ref /\ ~cfg.global_ref_db.set
        \/ call.mels.bands # 80
  \/ /\ call.op = "_get_sil_endpoints"
     /\ call.sil_type # "sil" /\ call.sil_type # "nosil"

C7_ViolationsFail ==
  /\ [](/\ (call.op # "none" /\ Violates) => (pc = "error" /\ ret = NoRet)
        /\ pc = "error" => Violates)
  /\ [][cfg' = cfg /\ cls' = cls]_vars

\* each of the three violations has ended in an error
C7_Witness ==
  /\ pc = "error"
  /\ call.op = "get_nosil_endpoints"
  /\ call.using_global_ref /\ ~cfg.global_ref_db.set
  /\ call.mels.bands = 80

C7_WitnessBands ==
  pc = "error" /\ call.op = "get_vad_label" /\ call.mels.bands # 80
    /\ ~call.using_global_ref

C7_WitnessSilType ==
  pc = "error" /\ call.op = "_get_sil_endpoints" /\ call.sil_type = "speech"

---------------------------------------------------------------------------
(* C8: for the decibel profile of a call and thresholds t1 <= t2, every    *)
(* frame that is speech (db > -t1) under t1 is speech under t2, so that    *)
(* the number of speech frames does not decrease as top_db is raised; the  *)
(* mask of the call is the one of its own top_db.  For get_nosil_endpoints *)
(* and the "nosil" direction of _get_sil_endpoints.                        *)
CompareDbs == {0, 5, 10, 15, 20, 25, 30, 60}

NosilCall ==
  \/ Done("get_nosil_endpoints")
  \/ Done("_get_sil_endpoints") /\ call.sil_type = "nosil"

C8_ThresholdMonotone ==
  NosilCall =>
    /\ loc.sil_index = NosilIndex(loc.db, cfg.top_db)
    /\ \A t1, t2 \in CompareDbs \cup {cfg.top_db} :
         t1 <= t2 =>
           /\ NosilIndex(loc.db, t1) \subseteq NosilIndex(loc.db, t2)
           /\ Cardinality(NosilIndex(loc.db, t1)) <= Cardinality(NosilIndex(loc.db, t2))

\* a profile on which a higher threshold classifies more frames as speech
C8_Witness ==
  /\ Done("_get_sil_endpoints") /\ call.sil_type = "nosil"
  /\ cfg.top_db = 15
  /\ loc.sil_index # {}
  /\ loc.sil_index # NosilIndex(loc.db, 25)

---------------------------------------------------------------------------
(* C9: the speech intervals of get_speech_endpoint before the minimum-     *)
(* speech filter are (0, first silence start) if that start is above       *)
(* 0.001, (silence[i].end, silence[i+1].start) for consecutive surviving   *)
(* silences, and (last silence end, duration) if more than 0.001 remains,  *)
(* over the silence runs longer than min_sil_dur only: a shorter silence   *)
(* run lies inside one speech interval (or inside a boundary gap) and      *)
(* neither splits nor shortens it.  Silence runs (0.5, 1.5) and (2.0, 2.2) *)
(* in a 3.0 s clip with min_sil_dur 0.75 and min_nosil_dur 0.40 give       *)
(* [(0.0, 0.5), (1.5, 3.0)].                                               *)
InSeconds(p) == <<Rat(p[1], call.sr), Rat(p[2], call.sr)>>

\* the silence runs (in seconds) that are longer than min_sil_dur
Surviving ==
  {InSeconds(p) : p \in {q \in SeqSet(loc.sil_endpoints) :
     (q[2] - q[1]) * call.min_sil_dur[2] > call.sr * call.min_sil_dur[1]}}

\* the runs of silent frames (in seconds) that did not survive
Dropped ==
  {InSeconds(<<loc.raw[i][1].val, loc.raw[i][2]>>) : i \in 1..Len(loc.raw)} \ Surviving

\* the pairs of surviving silences with no surviving silence between them
Consecutive ==
  {pr \in Surviving \X Surviving :
     /\ RatLt(pr[1][1], pr[2][1])
     /\ ~\E u \in Surviving : RatLt(pr[1][1], u[1]) /\ RatLt(u[1], pr[2][1])}

ExpectedSpeech ==
  LET firstStart == CHOOSE a \in {s[1] : s \in Surviving} :
                      \A s \in Surviving : RatLeq(a, s[1])
      lastEnd == CHOOSE a \in {s[2] : s \in Surviving} :
                      \A s \in Surviving : RatLeq(s[2], a)
  IN (IF RatGt(firstStart, Millisecond) THEN {<<Zero, firstStart>>} ELSE {})
       \cup {<<pr[1][2], pr[2][1]>> : pr \in Consecutive}
       \cup (IF RatGt(RatSub(loc.dur, lastEnd), Millisecond)
             THEN {<<lastEnd, loc.dur>>} ELSE {})

C9_SpeechIsComplementOfSurvivors ==
  /\ (Done("get_speech_endpoint") /\ Surviving # {}) =>
       /\ SeqSet(loc.sil_data) = Surviving
       /\ SeqSet(loc.nosil_raw) = ExpectedSpeech
       /\ Len(loc.nosil_raw) = Cardinality(ExpectedSpeech)
       /\ \A i \in 1..(Len(loc.nosil_raw) - 1) :
            RatLt(loc.nosil_raw[i][1], loc.nosil_raw[i + 1][1])
       /\ \A d \in Dropped :
            \/ \E p \in SeqSet(loc.nosil_raw) : RatLeq(p[1], d[1]) /\ RatLeq(d[2], p[2])
            \/ RatLeq(d[2], loc.sil_data[1][1])
            \/ RatLeq(loc.sil_data[Len(loc.sil_data)][2], d[1])
  /\ (/\ Done("get_speech_endpoint")
      /\ SeqSet(loc.sil_endpoints) = {<<5, 15>>, <<20, 22>>}
      /\ call.sr = 10 /\ call.sig.len = 30
      /\ call.min_sil_dur = Rat(3, 4) /\ call.min_nosil_dur = Rat(2, 5)) =>
       /\ loc.nosil_raw = << <<Zero, Rat(1, 2)>>, <<Rat(3, 2), Rat(3, 1)>> >>
       /\ ret.intervals = loc.nosil_raw

\* the scenario: a long and a short silence in a 3.0 s clip
C9_Witness ==
  /\ Done("get_speech_endpoint")
  /\ SeqSet(loc.sil_endpoints) = {<<5, 15>>, <<20, 22>>}
  /\ call.sr = 10 /\ call.sig.len = 30
  /\ Len(loc.sil_data) = 1
  /\ Len(ret.intervals) = 2

---------------------------------------------------------------------------
(* C10: with the local maximum as reference (using_global_ref = False for  *)
(* MelVad, ref = np.max for SigVad) and top_db > 0, the frames of maximum  *)
(* power have the decibel level 0, are speech and are not silence; so      *)
(* get_vad_label on a single frame returns True, and the silence mask of   *)
(* _get_sil_endpoints never covers all frames.                             *)
LocalMax ==
  \/ cls = "MelVad" /\ ~call.using_global_ref
  \/ cls = "SigVad" /\ cfg.ref.mode = "max"

\* the 1-based positions of the frames of maximum power of the call's input
Loudest ==
  IF cls = "MelVad"
  THEN {i \in 1..Len(call.mels.rows) :
          \A j \in 1..Len(call.mels.rows) :
            Clip(call.mels.rows[j], 0, 5) <= Clip(call.mels.rows[i], 0, 5)}
  ELSE {i \in 1..Len(call.sig.mse) :
          \A j \in 1..Len(call.sig.mse) : call.sig.mse[j] <= call.sig.mse[i]}

C10_LoudestFrameIsSpeech ==
  (pc = "done" /\ LocalMax /\ cfg.top_db > 0) =>
    /\ \A i \in Loudest :
         /\ loc.db[i] = 0
         /\ loc.db[i] > -cfg.top_db
         /\ ~(loc.db[i] < -cfg.top_db)
    /\ (call.op = "get_vad_label" /\ Len(call.mels.rows) = 1) => ret.label
    /\ (call.op = "get_nosil_endpoints" \/ call.sil_type = "nosil") =>
         \A i \in Loudest : (i - 1) \in loc.sil_index
    /\ (call.op = "get_speech_endpoint"
          \/ (call.op = "_get_sil_endpoints" /\ call.sil_type = "sil")) =>
         /\ \A i \in Loudest : (i - 1) \notin loc.sil_index
         /\ loc.sil_index # 0..(NFrames - 1)

\* a waveform without any power: every frame is at the floor, and none is silence
C10_Witness ==
  /\ Done("_get_sil_endpoints") /\ call.sil_type = "sil"
  /\ LocalMax /\ cfg.top_db > 0
  /\ \A i \in 1..Len(call.sig.mse) : call.sig.mse[i] = 0
  /\ NFrames >= 2
  /\ loc.sil_index = {}

\* get_vad_label on one frame, with the local maximum as reference
C10_WitnessLabel ==
  /\ Done("get_vad_label") /\ ~call.using_global_ref /\ cfg.top_db > 0
  /\ Len(call.mels.rows) = 1
  /\ ret.label

====
